---------------------------- MODULE Spec2Model ----------------------------
(***************************************************************************)
(* A model of gdal2tiles (intdxdt/tilegen): the tile pyramid builder.      *)
(*                                                                         *)
(*   - GlobalGeodetic (src/geodetic/__init__.py): Resolution,              *)
(*     ZoomForPixelSize, LatLonToTile, TileBounds;                         *)
(*   - GDAL2Tiles (src/gdal2tiles/__init__.py): open_input (zoom range and *)
(*     the tminmax table), generate_base_tiles, generate_overview_tiles,   *)
(*     geo_query, scale_query_to_tile, stop, process.                      *)
(*                                                                         *)
(* Numbers.  Python floats are modelled in exact arithmetic on integers:   *)
(* cartographic coordinates are integers counted in a fixed unit, a pixel  *)
(* size is a whole number of units, and a resolution is a dyadic number    *)
(* m / 2^e.  Every int(...) of the source is a truncation toward zero of   *)
(* the exact quotient; on the ranges used here the IEEE-754 doubles of the *)
(* source give the same integers as the exact quotients.                   *)
(***************************************************************************)
EXTENDS Integers, Sequences, FiniteSets, TLC

VARIABLES
    opt,        \* self.options: profile, resampling, resume, zoom
    ds,         \* self.out_ds: the raster in the output projection
    pc,         \* where process() is
    stopped,    \* self.stopped
    tminz,      \* self.tminz
    tmaxz,      \* self.tmaxz
    nativezoom, \* self.nativezoom (raster profile)
    tminmax,    \* self.tminmax: zoom -> <<tminx, tminy, tmaxx, tmaxy>>
    tsize,      \* self.tsize (raster profile): zoom -> tile size in raster pixels
    tz,         \* the loop variables of the generate_*_tiles loops
    ty,
    tx,
    cur,        \* the tile whose generation is in progress, or None
    store,      \* the tile files on disk: <<z, x, y>>
    dirs,       \* the tile directories on disk: <<z, x>>
    opened,     \* the child tiles the overview composition in progress opened
    trace,      \* what this run did so far, in order: <<what, <<z, x, y>>>>
    run,        \* 1: the first run, 2: the command run again on its output
    first,      \* how the first run ended, once it has
    gq,         \* geo_query under test: its arguments and what it returned
    zq,         \* Resolution and ZoomForPixelSize under test
    fn          \* any other function under test: its arguments and what it returned

object == <<stopped, tminz, tmaxz, nativezoom, tminmax, tsize>>

loop == <<tz, ty, tx, cur>>

disk == <<store, dirs>>

history == <<opened, trace, run, first>>

process == <<opt, ds, pc, object, loop, disk, history>>

vars == <<process, gq, zq, fn>>

---------------------------------------------------------------------------
(* Arithmetic of the source language                                       *)

Abs(n) == IF n < 0 THEN -n ELSE n

Max(a, b) == IF a >= b THEN a ELSE b

Min(a, b) == IF a <= b THEN a ELSE b

\* int(n / d) of Python for an exact quotient n / d, d # 0: truncation toward 0.
TruncDiv(n, d) ==
    LET nn == IF d < 0 THEN -n ELSE n
        dd == Abs(d)
    IN  IF nn >= 0 THEN nn \div dd ELSE -((-nn) \div dd)

\* math.ceil(n / d) for an exact quotient n / d, d > 0.
CeilDiv(n, d) == -((-n) \div d)

\* int(n / d + 0.001), d # 0.
IntDivPlusMilli(n, d) == TruncDiv(1000 * n + d, 1000 * d)

\* int(n / d + 0.5), d # 0.
IntDivPlusHalf(n, d) == TruncDiv(2 * n + d, 2 * d)

\* The whole numbers 0 < a, b, c <= 30 for which the double a * (float(b) / c)
\* is just below the whole number a * b / c (the quotient b / c is rounded
\* down and the product is not rounded back up); the sign of a, b or c makes
\* no difference.
ProductRoundedBelow ==
    { <<11, 15, 11>>, <<11, 30, 11>>, <<11, 30, 22>>, <<13, 15, 13>>, <<13, 30, 13>>,
      <<13, 30, 26>>, <<21, 17, 7>>, <<22, 15, 11>>, <<22, 15, 22>>, <<22, 30, 11>>,
      <<22, 30, 22>>, <<23, 13, 23>>, <<23, 26, 23>>, <<25, 23, 5>>, <<25, 29, 25>>,
      <<26, 15, 13>>, <<26, 15, 26>>, <<26, 30, 13>>, <<26, 30, 26>>, <<27, 13, 3>>,
      <<27, 26, 3>>, <<27, 26, 6>> }

\* The product without the division by the read size.
IntMulUndivided(a, b, c) == a * b

\* int(a * (float(b) / c)), c # 0, for |a|, |b|, |c| <= 30: int() truncates the
\* double product, which is one short of a * b / c for the arguments above.
IntMulDiv(a, b, c) ==
    LET exact == TruncDiv(a * b, c)
    IN  IF <<Abs(a), Abs(b), Abs(c)>> \in ProductRoundedBelow
          THEN exact - (IF exact > 0 THEN 1 ELSE -1)
          ELSE exact

\* Python's None, and a value that is not None.
None == <<>>

Some(v) == <<v>>

\* A positive dyadic number m / 2^e, 1 <= m < 2^15: resolutions and pixel sizes.
Dy(m, e) == [m |-> m, e |-> e]

RECURSIVE DyNorm(_)
DyNorm(a) == IF a.m % 2 = 0 /\ a.e > 0 THEN DyNorm(Dy(a.m \div 2, a.e - 1)) ELSE a

\* a > b for dyadic numbers (a.m * 2^b.e > b.m * 2^a.e, kept inside 32 bits).
DyGreater(a, b) ==
    LET k  == Min(a.e, b.e)
        ea == b.e - k
        eb == a.e - k
    IN  IF ea > 15 THEN TRUE
        ELSE IF eb > 15 THEN FALSE
        ELSE a.m * 2^ea > b.m * 2^eb

RECURSIVE Log2(_)
Log2(n) == IF n <= 1 THEN 0 ELSE 1 + Log2(n \div 2)

---------------------------------------------------------------------------
(* GlobalGeodetic: resolutions and zoom levels                             *)

MAXZOOMLEVEL == 32

tileSize == 256

\* 180.0 / self.tileSize / 2 ** zoom, with 180 / 256 = 45 / 2^6.
Resolution(zoom) == Dy(45, Log2(tileSize) - 2 + zoom)

\* The loop of ZoomForPixelSize from index i on; None when it falls out of
\* range(MAXZOOMLEVEL) without returning.
RECURSIVE ZoomScan(_, _)
ZoomScan(pixelSize, i) ==
    IF i >= MAXZOOMLEVEL THEN None
    ELSE IF DyGreater(pixelSize, Resolution(i))
           THEN (IF i # 0 THEN Some(i - 1) ELSE Some(0))
           ELSE ZoomScan(pixelSize, i + 1)

ZoomForPixelSize(pixelSize) == ZoomScan(pixelSize, 0)

---------------------------------------------------------------------------
(* GlobalGeodetic: pixels and tiles.  A coordinate is a whole number of    *)
(* units, one unit being Resolution(FineZoom) degrees; zoom levels         *)
(* 0..MaxZoom are tabulated.                                               *)

MaxZoom == 2

FineZoom == MaxZoom - 1

Deg180 == tileSize * 2^FineZoom

Deg90 == Deg180 \div 2

\* n units as a dyadic number of degrees, divided by 2^shift.
UnitsDy(n, shift) == DyNorm(Dy(45 * n, Log2(tileSize) - 2 + FineZoom + shift))

\* A pixel coordinate is the exact quotient n / d.
LatLonToPixels(lat, lon, zoom) ==
    <<[n |-> (Deg180 + lat) * 2^zoom, d |-> 2^FineZoom],
      [n |-> (Deg90 + lon) * 2^zoom, d |-> 2^FineZoom]>>

\* PixelsToTile without the '- 1' after math.ceil.
PixelsToTileCeilOnly(px, py) ==
    <<CeilDiv(px.n, px.d * tileSize), CeilDiv(py.n, py.d * tileSize)>>

PixelsToTile(px, py) ==
    <<CeilDiv(px.n, px.d * tileSize) - 1, CeilDiv(py.n, py.d * tileSize) - 1>>

LatLonToTile(lat, lon, zoom) ==
    LET p == LatLonToPixels(lat, lon, zoom) IN PixelsToTile(p[1], p[2])

\* TileBounds with the resolution of zoom 0 at every zoom.
TileBoundsUnzoomed(x, y, zoom) ==
    <<x * Deg180 - Deg180, y * Deg180 - Deg90,
      (x + 1) * Deg180 - Deg180, (y + 1) * Deg180 - Deg90>>

\* tileSize * res is Deg180 / 2^zoom units.
TileBounds(x, y, zoom) ==
    LET side == Deg180 \div 2^zoom
    IN  <<x * side - Deg180, y * side - Deg90,
          (x + 1) * side - Deg180, (y + 1) * side - Deg90>>

---------------------------------------------------------------------------
(* GlobalMercator: the world is a square of side 2 * originShift split     *)
(* into 2^zoom tiles per side, pixel origin bottom-left; pixels to tiles   *)
(* and pixel sizes to zooms as in GlobalGeodetic.  A coordinate is a whole *)
(* number of units, one unit being the resolution of FineZoom in metres.   *)

originShift == (tileSize * 2^FineZoom) \div 2

\* Resolution(zoom) = 2 * originShift / tileSize / 2^zoom units per pixel.
MercatorResolution(zoom) == DyNorm(Dy(2^FineZoom, zoom))

\* MetersToPixels without the shift of the origin to the bottom-left corner.
MetersToPixelsUnshifted(mx, my, zoom) ==
    <<[n |-> mx * 2^zoom, d |-> 2^FineZoom], [n |-> my * 2^zoom, d |-> 2^FineZoom]>>

MetersToPixels(mx, my, zoom) ==
    <<[n |-> (mx + originShift) * 2^zoom, d |-> 2^FineZoom],
      [n |-> (my + originShift) * 2^zoom, d |-> 2^FineZoom]>>

MetersToTile(mx, my, zoom) ==
    LET p == MetersToPixels(mx, my, zoom) IN PixelsToTile(p[1], p[2])

RECURSIVE MercatorZoomScan(_, _)
MercatorZoomScan(pixelSize, i) ==
    IF i >= MAXZOOMLEVEL THEN None
    ELSE IF DyGreater(pixelSize, MercatorResolution(i))
           THEN (IF i # 0 THEN Some(i - 1) ELSE Some(0))
           ELSE MercatorZoomScan(pixelSize, i + 1)

MercatorZoomForPixelSize(pixelSize) == MercatorZoomScan(pixelSize, 0)

---------------------------------------------------------------------------
(* GDAL2Tiles.__init__ and open_input                                      *)
(* A dataset is [x0, y0: origin (out_gt[0], out_gt[3]) in units, px: pixel *)
(* size out_gt[1] in units, xsize, ysize: RasterXSize, RasterYSize,        *)
(* skew: the rotation and skew terms (out_gt[2], out_gt[4])].              *)

tilesize == 256

resampling_list ==
    {"average", "near", "bilinear", "cubic", "cubicspline", "lanczos", "antialias"}

profile_list == {"mercator", "geodetic", "raster"}

\* self.querysize as __init__ leaves it.
InitQuerysize(resampling) ==
    IF resampling = "near" THEN tilesize
    ELSE IF resampling = "bilinear" THEN tilesize * 2
    ELSE 4 * tilesize

\* The output bounds <<ominx, ominy, omaxx, omaxy>>.
OutputBounds(d) ==
    <<d.x0, d.y0 - d.ysize * d.px, d.x0 + d.xsize * d.px, d.y0>>

\* One pass of the loop that fills self.tminmax in the geodetic profile.
GeodeticRect(d, zoom) ==
    LET b    == OutputBounds(d)
        tmin == LatLonToTile(b[1], b[2], zoom)
        tmax == LatLonToTile(b[3], b[4], zoom)
    IN  <<Max(0, tmin[1]), Max(0, tmin[2]),
          Min(2^(zoom + 1) - 1, tmax[1]), Min(2^zoom - 1, tmax[2])>>

\* One pass of the loop that fills self.tminmax in the mercator profile.
MercatorRect(d, zoom) ==
    LET b    == OutputBounds(d)
        tmin == MetersToTile(b[1], b[2], zoom)
        tmax == MetersToTile(b[3], b[4], zoom)
    IN  <<Max(0, tmin[1]), Max(0, tmin[2]),
          Min(2^zoom - 1, tmax[1]), Min(2^zoom - 1, tmax[2])>>

\* math.ceil(log2(n / float(d))): the least k, negative or not, with 2^k >= n / d.
RECURSIVE CeilLog2Up(_, _, _)
CeilLog2Up(n, d, k) == IF d * 2^k >= n THEN k ELSE CeilLog2Up(n, d, k + 1)

RECURSIVE CeilLog2Down(_, _, _)
CeilLog2Down(n, d, j) == IF n * 2^(j + 1) <= d THEN CeilLog2Down(n, d, j + 1) ELSE -j

CeilLog2(n, d) == IF n > d THEN CeilLog2Up(n, d, 1) ELSE CeilLog2Down(n, d, 0)

NativeZoom(d) == Max(CeilLog2(d.xsize, tilesize), CeilLog2(d.ysize, tilesize))

\* The tile size in raster pixels without the factor 2 ** (nativezoom - zoom).
RasterTsizeUnscaled(nz, zoom) == [n |-> tilesize, d |-> 1]

\* tsize = 2.0 ** (nativezoom - zoom) * tilesize as the exact quotient n / d.
RasterTsize(nz, zoom) ==
    [n |-> tilesize * 2^Max(nz - zoom, 0), d |-> 2^Max(zoom - nz, 0)]

\* One pass of the loop that fills self.tminmax in the raster profile.
RasterRect(d, nz, zoom) ==
    LET t == RasterTsize(nz, zoom)
    IN  <<0, 0, CeilDiv(d.xsize * t.d, t.n) - 1, CeilDiv(d.ysize * t.d, t.n) - 1>>

\* What open_input leaves in the object, given the zoom levels __init__ read
\* from the options (None when the user gave none).
open_input(o, d, minz, maxz) ==
    IF o.profile = "mercator"
      THEN [tminmax    |-> [zoom \in 0..MaxZoom |-> MercatorRect(d, zoom)],
            tminz      |-> IF minz = None
                             THEN MercatorZoomForPixelSize(
                                      DyNorm(Dy(d.px * Max(d.xsize, d.ysize), Log2(tilesize))))
                             ELSE minz,
            tmaxz      |-> IF maxz = None
                             THEN MercatorZoomForPixelSize(Dy(d.px, 0)) ELSE maxz,
            nativezoom |-> None,
            tsize      |-> <<>>]
    ELSE IF o.profile = "geodetic"
      THEN [tminmax    |-> [zoom \in 0..MaxZoom |-> GeodeticRect(d, zoom)],
            tminz      |-> IF minz = None
                             THEN ZoomForPixelSize(
                                      UnitsDy(d.px * Max(d.xsize, d.ysize), Log2(tilesize)))
                             ELSE minz,
            tmaxz      |-> IF maxz = None THEN ZoomForPixelSize(UnitsDy(d.px, 0)) ELSE maxz,
            nativezoom |-> None,
            tsize      |-> <<>>]
      ELSE LET nz == NativeZoom(d)
               mx == IF maxz = None THEN Some(nz) ELSE maxz
           IN  [tminmax    |-> [zoom \in 0..mx[1] |-> RasterRect(d, nz, zoom)],
                tminz      |-> IF minz = None THEN Some(0) ELSE minz,
                tmaxz      |-> mx,
                nativezoom |-> Some(nz),
                tsize      |-> [zoom \in 0..mx[1] |->
                                   LET t == RasterTsize(nz, zoom) IN CeilDiv(t.n, t.d)]]

\* error() that prints the message and returns to its caller.
errorReturns == pc' = pc

\* error(): self.parser.error prints the message and exits the program.
error == pc' = "exited"

\* No test of the rotation and skew terms.
RotationOrSkewUntested(d) == FALSE

\* Lines 487-490: (self.out_gt[2], self.out_gt[4]) != (0, 0).
RotationOrSkew(d) == d.skew # <<0, 0>>

OpenInput ==
    /\ pc = "open_input"
    /\ IF RotationOrSkew(ds)
         THEN /\ error
              /\ UNCHANGED <<tminmax, tminz, tmaxz, nativezoom, tsize>>
         ELSE /\ LET r == open_input(opt, ds, tminz, tmaxz)
                 IN  /\ tminmax' = r.tminmax
                     /\ tminz' = r.tminz
                     /\ tmaxz' = r.tmaxz
                     /\ nativezoom' = r.nativezoom
                     /\ tsize' = r.tsize
              /\ pc' = "generate_metadata"
    /\ UNCHANGED <<opt, ds, stopped, loop, disk, history, gq, zq, fn>>

\* The object as __init__ leaves it, for the options o.
Constructed(o) ==
    /\ stopped = FALSE
    /\ tminz = (IF o.zoom = None THEN None ELSE Some(o.zoom[1]))
    /\ tmaxz = (IF o.zoom = None THEN None ELSE Some(o.zoom[2]))
    /\ nativezoom = None
    /\ tminmax = <<>>
    /\ tsize = <<>>
    /\ tz = 0 /\ ty = 0 /\ tx = 0
    /\ cur = None
    /\ opened = {}
    /\ trace = <<>>

---------------------------------------------------------------------------
(* GDAL2Tiles.generate_base_tiles and generate_overview_tiles              *)

\* for ty in range(tmaxy, tminy - 1, -1): for tx in range(tminx, tmaxx + 1):
\* the first <<ty, tx>>, the one after a finished tile, the one after a break
\* of the inner loop, and the end of the outer loop.
LoopFirst(r) == IF r[1] > r[3] THEN <<r[2] - 1, r[1]>> ELSE <<r[4], r[1]>>

LoopAfter(r, y, x) == IF x < r[3] THEN <<y, x + 1>> ELSE <<y - 1, r[1]>>

LoopBreak(r, y, x) == <<y - 1, r[1]>>

LoopEnd(r, y) == y < r[2]

Tile == <<tz, tx, ty>>

\* scale_query_to_tile: TRUE when it saved the tile file itself (the
\* 'antialias' branch, im1.save); the other branches leave the tile in dstile.
scale_query_to_tile(resampling) == resampling = "antialias"

\* The local querysize of generate_base_tiles for a tile of zoom z.
BaseQuerysize(o, nz, z) ==
    IF o.profile = "raster" /\ z >= nz[1] THEN tilesize ELSE InitQuerysize(o.resampling)

\* Lines 828-852: how the base tile in progress reaches the disk: "saved" by
\* scale_query_to_tile, "copied" by out_drv.CreateCopy, or "unwritten".
BaseTileWrite(o, nz, z) ==
    LET direct == tilesize = BaseQuerysize(o, nz, z)
        saved  == IF direct THEN FALSE ELSE scale_query_to_tile(o.resampling)
    IN  IF o.resampling # "antialias" THEN "copied"
        ELSE IF saved THEN "saved" ELSE "unwritten"

\* Lines 938-942: the same for an overview tile.
OverviewTileWrite(o) ==
    LET saved == scale_query_to_tile(o.resampling)
    IN  IF o.resampling # "antialias" THEN "copied"
        ELSE IF saved THEN "saved" ELSE "unwritten"

\* Lines 916-919: the children of tile <<z, x, y>> inside the rectangle of zoom
\* z + 1, in the order the two loops open them.
ChildrenOf(table, z, x, y) ==
    LET r   == table[z + 1]
        all == <<<<z + 1, 2 * x, 2 * y>>, <<z + 1, 2 * x + 1, 2 * y>>,
                 <<z + 1, 2 * x, 2 * y + 1>>, <<z + 1, 2 * x + 1, 2 * y + 1>>>>
    IN  SelectSeq(all, LAMBDA c : c[2] >= r[1] /\ c[2] <= r[3] /\ c[3] >= r[2] /\ c[3] <= r[4])

\* The children opened before gdal.Open returned None for a missing file (and
\* dsquerytile.ReadRaster raised), or all of them.
RECURSIVE OpenedUntilMissing(_, _)
OpenedUntilMissing(kids, files) ==
    IF kids = <<>> THEN {}
    ELSE IF Head(kids) \notin files THEN {Head(kids)}
    ELSE {Head(kids)} \cup OpenedUntilMissing(Tail(kids), files)

GenerateMetadata ==
    /\ pc = "generate_metadata"
    /\ pc' = "generate_base_tiles"
    /\ UNCHANGED <<opt, ds, object, loop, disk, history, gq, zq, fn>>

\* tminx, tminy, tmaxx, tmaxy = self.tminmax[self.tmaxz]: an IndexError when
\* the table has no such entry.
BaseEnter ==
    /\ pc = "generate_base_tiles"
    /\ IF tmaxz[1] \in DOMAIN tminmax
         THEN /\ pc' = "base"
              /\ tz' = tmaxz[1]
              /\ ty' = LoopFirst(tminmax[tmaxz[1]])[1]
              /\ tx' = LoopFirst(tminmax[tmaxz[1]])[2]
         ELSE /\ pc' = "raised"
              /\ UNCHANGED <<tz, ty, tx>>
    /\ UNCHANGED <<opt, ds, object, cur, disk, history, gq, zq, fn>>

\* The part of one iteration that both tile loops share, up to the tile's
\* directory: the break on self.stopped, the skip of an existing tile file
\* under --resume, or the start of the tile.
IterationBreak(r) ==
    /\ cur = None /\ ~LoopEnd(r, ty)
    /\ stopped
    /\ ty' = LoopBreak(r, ty, tx)[1]
    /\ tx' = LoopBreak(r, ty, tx)[2]
    /\ UNCHANGED <<opt, ds, pc, object, tz, cur, disk, history, gq, zq, fn>>

IterationSkip(r) ==
    /\ cur = None /\ ~LoopEnd(r, ty)
    /\ ~stopped
    /\ opt.resume /\ Tile \in store
    /\ trace' = Append(trace, <<"skipped", Tile>>)
    /\ ty' = LoopAfter(r, ty, tx)[1]
    /\ tx' = LoopAfter(r, ty, tx)[2]
    /\ UNCHANGED <<opt, ds, pc, object, tz, cur, disk, opened, run, first, gq, zq, fn>>

IterationBegin(r) ==
    /\ cur = None /\ ~LoopEnd(r, ty)
    /\ ~stopped
    /\ ~(opt.resume /\ Tile \in store)
    /\ dirs' = dirs \cup {<<tz, tx>>}
    /\ cur' = Some(Tile)
    /\ opened' = {}
    /\ trace' = Append(trace, <<"begun", Tile>>)
    /\ UNCHANGED <<opt, ds, pc, object, tz, ty, tx, store, run, first, gq, zq, fn>>

BaseBreak == pc = "base" /\ IterationBreak(tminmax[tz])

BaseSkip == pc = "base" /\ IterationSkip(tminmax[tz])

BaseBegin == pc = "base" /\ IterationBegin(tminmax[tz])

BaseFinish ==
    /\ pc = "base" /\ cur # None
    /\ LET how == BaseTileWrite(opt, nativezoom, tz)
       IN  /\ store' = IF how = "unwritten" THEN store ELSE store \cup {Tile}
           /\ trace' = Append(trace, <<how, Tile>>)
    /\ cur' = None
    /\ ty' = LoopAfter(tminmax[tz], ty, tx)[1]
    /\ tx' = LoopAfter(tminmax[tz], ty, tx)[2]
    /\ UNCHANGED <<opt, ds, pc, object, tz, dirs, opened, run, first, gq, zq, fn>>

\* scale_query_to_tile, lines 1003-1036: gdal.RegenerateOverview or
\* gdal.ReprojectImage returned a non-zero status for the base tile in
\* progress; the 'antialias' branch and the direct write call neither.
BaseFail ==
    /\ pc = "base" /\ cur # None
    /\ tilesize # BaseQuerysize(opt, nativezoom, tz)
    /\ opt.resampling # "antialias"
    /\ trace' = Append(trace, <<"failed", Tile>>)
    /\ error
    /\ UNCHANGED <<opt, ds, object, loop, store, dirs, opened, run, first, gq, zq, fn>>

BaseReturn ==
    /\ pc = "base" /\ cur = None /\ LoopEnd(tminmax[tz], ty)
    /\ pc' = "generate_overview_tiles"
    /\ UNCHANGED <<opt, ds, object, loop, disk, history, gq, zq, fn>>

\* for tz in range(self.tmaxz - 1, self.tminz - 1, -1): the loop is at zoom z.
OverviewAt(z) ==
    /\ tz' = z
    /\ IF z >= tminz[1]
         THEN /\ ty' = LoopFirst(tminmax[z])[1]
              /\ tx' = LoopFirst(tminmax[z])[2]
         ELSE UNCHANGED <<ty, tx>>

OverviewEnter ==
    /\ pc = "generate_overview_tiles"
    /\ pc' = "overview"
    /\ OverviewAt(tmaxz[1] - 1)
    /\ UNCHANGED <<opt, ds, object, cur, disk, history, gq, zq, fn>>

OverviewNextLevel ==
    /\ pc = "overview" /\ cur = None
    /\ tz >= tminz[1] /\ LoopEnd(tminmax[tz], ty)
    /\ OverviewAt(tz - 1)
    /\ UNCHANGED <<opt, ds, pc, object, cur, disk, history, gq, zq, fn>>

OverviewBreak == pc = "overview" /\ tz >= tminz[1] /\ IterationBreak(tminmax[tz])

OverviewSkip == pc = "overview" /\ tz >= tminz[1] /\ IterationSkip(tminmax[tz])

OverviewBegin == pc = "overview" /\ tz >= tminz[1] /\ IterationBegin(tminmax[tz])

OverviewFinish ==
    /\ pc = "overview" /\ cur # None
    /\ LET kids == ChildrenOf(tminmax, tz, tx, ty)
           got  == OpenedUntilMissing(kids, store)
           how  == OverviewTileWrite(opt)
       IN  /\ opened' = got
           /\ IF got \subseteq store
                THEN /\ store' = IF how = "unwritten" THEN store ELSE store \cup {Tile}
                     /\ trace' = Append(trace, <<how, Tile>>)
                     /\ cur' = None
                     /\ ty' = LoopAfter(tminmax[tz], ty, tx)[1]
                     /\ tx' = LoopAfter(tminmax[tz], ty, tx)[2]
                     /\ pc' = pc
                ELSE /\ pc' = "raised"
                     /\ trace' = Append(trace, <<"raised", Tile>>)
                     /\ UNCHANGED <<store, cur, ty, tx>>
    /\ UNCHANGED <<opt, ds, object, tz, dirs, run, first, gq, zq, fn>>

\* The same for the overview tile in progress, once its children were read.
OverviewFail ==
    /\ pc = "overview" /\ cur # None
    /\ opt.resampling # "antialias"
    /\ LET got == OpenedUntilMissing(ChildrenOf(tminmax, tz, tx, ty), store)
       IN  /\ got \subseteq store
           /\ opened' = got
    /\ trace' = Append(trace, <<"failed", Tile>>)
    /\ error
    /\ UNCHANGED <<opt, ds, object, loop, store, dirs, run, first, gq, zq, fn>>

OverviewReturn ==
    /\ pc = "overview" /\ cur = None /\ tz < tminz[1]
    /\ pc' = "done"
    /\ UNCHANGED <<opt, ds, object, loop, disk, history, gq, zq, fn>>

Running ==
    pc \in {"generate_metadata", "generate_base_tiles", "base",
            "generate_overview_tiles", "overview"}

\* stop(), called while process() runs; the run that follows a first run is
\* left to run to its end.
Stop ==
    /\ Running /\ ~stopped
    /\ run = 1
    /\ stopped' = TRUE
    /\ trace' = Append(trace, <<"stop", cur>>)
    /\ UNCHANGED <<opt, ds, pc, tminz, tmaxz, nativezoom, tminmax, tsize,
                   loop, disk, opened, run, first, gq, zq, fn>>

\* The command is run again on the output of the first run: a new object,
\* the same options and input, the tile files and directories as they are.
Rerun ==
    /\ pc \in {"done", "raised"} /\ run = 1
    /\ run' = 2
    /\ first' = [ended |-> pc, stopped |-> stopped, store |-> store]
    /\ pc' = "open_input"
    /\ stopped' = FALSE
    /\ tminz' = (IF opt.zoom = None THEN None ELSE Some(opt.zoom[1]))
    /\ tmaxz' = (IF opt.zoom = None THEN None ELSE Some(opt.zoom[2]))
    /\ nativezoom' = None
    /\ tminmax' = <<>>
    /\ tsize' = <<>>
    /\ tz' = 0 /\ ty' = 0 /\ tx' = 0
    /\ cur' = None
    /\ opened' = {}
    /\ trace' = <<>>
    /\ UNCHANGED <<opt, ds, disk, gq, zq, fn>>

\* The zoom option: None, or <<min, max>> as __init__ reads 'min-max' ('min'
\* alone is <<min, min>>).
ZoomOptions == {None} \cup ((0..MaxZoom) \X (0..MaxZoom))

\* One resampling for each way a tile is scaled and written: 'average' (as
\* 'cubic', 'cubicspline' and 'lanczos': a 4 * tilesize query,
\* out_drv.CreateCopy), 'near', 'bilinear' and 'antialias'.
Resamplings == {"average", "near", "bilinear", "antialias"}

\* The profiles whose tile arithmetic is modelled (GlobalGeodetic and the
\* raster profile of open_input).
Profiles == profile_list \ {"mercator"}

Options ==
    [profile : Profiles, resampling : Resamplings, resume : BOOLEAN,
     zoom : ZoomOptions]

\* Rasters of the geodetic profile: inside the world, across its east edge,
\* and one with a rotation term in its geotransform.
GeodeticDatasets ==
    { [x0 |-> 10, y0 |-> 100, px |-> 1, xsize |-> 200, ysize |-> 150, skew |-> <<0, 0>>],
      [x0 |-> Deg180 - 112, y0 |-> Deg90, px |-> 1, xsize |-> 300, ysize |-> 200,
       skew |-> <<0, 0>>],
      [x0 |-> 10, y0 |-> 100, px |-> 1, xsize |-> 200, ysize |-> 150, skew |-> <<1, 0>>] }

\* Rasters of the raster profile: two tiles wide, within one tile, and smaller
\* than half a tile, and one with a skew term in its geotransform.
RasterDatasets ==
    { [x0 |-> 0, y0 |-> 0, px |-> 1, xsize |-> 300, ysize |-> 200, skew |-> <<0, 0>>],
      [x0 |-> 0, y0 |-> 0, px |-> 1, xsize |-> 200, ysize |-> 256, skew |-> <<0, 0>>],
      [x0 |-> 0, y0 |-> 0, px |-> 1, xsize |-> 100, ysize |-> 100, skew |-> <<0, 0>>],
      [x0 |-> 0, y0 |-> 0, px |-> 1, xsize |-> 300, ysize |-> 200, skew |-> <<0, 1>>] }

DatasetsOf(profile) == IF profile = "geodetic" THEN GeodeticDatasets ELSE RasterDatasets

GQIdle == [pc |-> "idle"]

FnIdle == [pc |-> "idle"]

ZQIdle == [pc |-> "idle", zoom |-> 0, pixelSize |-> Dy(1, 0), res |-> None, ret |-> None]

\* process() about to start on an empty output directory.
Started(options, datasets) ==
    /\ opt \in options
    /\ ds \in datasets
    /\ pc = "open_input"
    /\ Constructed(opt)
    /\ store = {}
    /\ dirs = {}
    /\ run = 1
    /\ first = None

Init ==
    /\ Started(Options, GeodeticDatasets \cup RasterDatasets)
    /\ ds \in DatasetsOf(opt.profile)
    /\ gq = GQIdle
    /\ zq = ZQIdle
    /\ fn = FnIdle

Next ==
    \/ OpenInput
    \/ GenerateMetadata
    \/ BaseEnter
    \/ BaseBreak
    \/ BaseSkip
    \/ BaseBegin
    \/ BaseFinish
    \/ BaseReturn
    \/ OverviewEnter
    \/ OverviewNextLevel
    \/ OverviewBreak
    \/ OverviewSkip
    \/ OverviewBegin
    \/ OverviewFinish
    \/ OverviewReturn
    \/ BaseFail
    \/ OverviewFail
    \/ Stop
    \/ Rerun

Spec == Init /\ [][Next]_vars

\* The tile addresses of the rectangle of zoom z.
RectTiles(table, z) ==
    { <<z, x, y>> : x \in table[z][1]..table[z][3], y \in table[z][2]..table[z][4] }

\* The tiles this run wrote or skipped under --resume before trace entry i.
HandledBefore(i) ==
    { trace[j][2] : j \in { k \in 1..(i - 1) : trace[k][1] \in {"copied", "saved", "skipped"} } }

\* The trace entries that are about a tile of a loop.
TileEntries == { i \in DOMAIN trace : trace[i][1] # "stop" }

\* C2: no overview tile of zoom z is started before every tile of the
\* rectangle of zoom z + 1 has been written or skipped under --resume, and
\* the tiles are taken in descending order of zoom, the base level first.
C2_LevelHandledBeforeCoarserLevel ==
    /\ \A i \in DOMAIN trace :
          (trace[i][1] = "begun" /\ trace[i][2][1] < tmaxz[1]) =>
              RectTiles(tminmax, trace[i][2][1] + 1) \subseteq HandledBefore(i)
    /\ \A i, j \in TileEntries : i < j => trace[i][2][1] >= trace[j][2][1]

\* C3: every child tile generate_overview_tiles opens to compose a parent
\* is in the tile store, for every profile, resampling and zoom range.
C3_ChildExistsWhenRead == opened \subseteq store

\* C4: after an uninterrupted, error-free run of process() on an empty
\* output directory the store holds every tile of the rectangle of tmaxz,
\* whichever the profile and the resampling.
C4_EveryLeafTileWritten ==
    (run = 1 /\ pc = "done" /\ ~stopped) => RectTiles(tminmax, tmaxz[1]) \subseteq store

\* C5: with --resume, a second run after a first run that completed without
\* stop or error skips every tile it comes to, writes none and leaves the
\* tile set as it was.
C5_SecondRunSkipsEverything ==
    (run = 2 /\ opt.resume /\ first.ended = "done" /\ ~first.stopped) =>
        /\ \A i \in TileEntries : trace[i][1] = "skipped"
        /\ store = first.store

\* The trace entry of stop(), once it was called in this run.
StopAt == CHOOSE i \in DOMAIN trace : trace[i][1] = "stop"

\* C6: once stop() has set the flag, the tile in progress completes and is
\* written (unless a provider error ends the run), and no further tile is
\* started in that run, in no row, level or phase.
C6_StopCompletesTileAndStartsNone ==
    stopped =>
        /\ \A j \in DOMAIN trace : j > StopAt => trace[j][1] # "begun"
        /\ trace[StopAt][2] # None =>
              IF Len(trace) = StopAt
                THEN cur = trace[StopAt][2] /\ pc \in {"base", "overview"}
                ELSE /\ trace[StopAt + 1][1] \in {"copied", "saved", "failed"}
                     /\ trace[StopAt + 1][2] = trace[StopAt][2][1]

\* The tile store a single uninterrupted run of process() on an empty output
\* directory ends with: nothing when the base level cannot be entered or its
\* tiles are not written, else the rectangles of tmaxz and of the overview
\* levels tmaxz - 1 .. tminz.
UninterruptedStore(o, d) ==
    LET r   == open_input(o, d,
                          IF o.zoom = None THEN None ELSE Some(o.zoom[1]),
                          IF o.zoom = None THEN None ELSE Some(o.zoom[2]))
        top == r.tmaxz[1]
    IN  IF top \notin DOMAIN r.tminmax THEN {}
        ELSE IF BaseTileWrite(o, r.nativezoom, top) = "unwritten" THEN {}
        ELSE UNION { RectTiles(r.tminmax, z) : z \in {top} \cup (r.tminz[1]..(top - 1)) }

\* C7: after a run that was stopped, an uninterrupted run with --resume ends
\* with the tile addresses of a single uninterrupted run, and never composes
\* an overview tile from a child that is missing from the store.
C7_CancelledRunResumable ==
    (run = 2 /\ opt.resume /\ first.stopped /\ ~stopped) =>
        /\ opened \subseteq store
        /\ pc \in {"done", "raised"} => store = UninterruptedStore(opt, ds)

\* C14: with a user zoom option 'a-b' the bounds are a and b as given, with
\* no inference from the resolution, and tiles are written only at zooms in
\* [a, b]: base tiles only at zoom b, overview tiles only at zooms a..b-1.
C14_UserZoomTakenVerbatim ==
    (opt.zoom # None /\ pc # "open_input") =>
        /\ tminz = Some(opt.zoom[1]) /\ tmaxz = Some(opt.zoom[2])
        /\ \A t \in store : opt.zoom[1] <= t[1] /\ t[1] <= opt.zoom[2]
        /\ (pc = "base" /\ cur # None) => tz = opt.zoom[2]
        /\ (pc = "overview" /\ cur # None) => (opt.zoom[1] <= tz /\ tz <= opt.zoom[2] - 1)

\* C17: overview composition raises no error for a child tile that is absent
\* from the store: the child is left out and the parent is still composed.
C17_MissingChildOmitted ==
    \A i \in DOMAIN trace :
        trace[i][1] = "begun" /\ trace[i][2][1] < tmaxz[1] =>
            \/ i = Len(trace) /\ pc = "overview"
            \/ i < Len(trace) /\ trace[i + 1][1] \in {"copied", "saved", "unwritten", "stop", "failed"}

\* C18: when RegenerateOverview or ReprojectImage returns a non-zero status
\* for a tile, the run ends there: the tile is not written, its generation
\* is not tried again and no later tile is generated.
C18_ProviderFailureAbortsRun ==
    \A i \in DOMAIN trace :
        trace[i][1] = "failed" =>
            /\ i = Len(trace) /\ pc = "exited"
            /\ cur = Some(trace[i][2])
            /\ \A j \in 1..(i - 1) :
                  trace[j][2] = trace[i][2] => trace[j][1] \notin {"copied", "saved", "failed"}
            /\ Cardinality({ j \in 1..i : trace[j] = <<"begun", trace[i][2]>> }) = 1
            /\ trace[i][2] \in store => (run = 2 /\ trace[i][2] \in first.store)

\* C18: the provider failed on an overview tile after other tiles were
\* written, and the run ended without that tile.
C18_Witness ==
    /\ pc = "exited" /\ run = 1
    /\ Len(trace) > 0 /\ trace[Len(trace)][1] = "failed"
    /\ trace[Len(trace)][2][1] < tmaxz[1]
    /\ store # {} /\ trace[Len(trace)][2] \notin store

\* C19: when the geotransform has a rotation or skew term, open_input ends
\* the run with an error before any metadata or tile is generated.
C19_RotationOrSkewIsFatal ==
    ds.skew # <<0, 0>> =>
        /\ pc \in {"open_input", "exited"}
        /\ store = {} /\ dirs = {} /\ trace = <<>>

\* C19: open_input has ended the run for a raster with a skew term.
C19_Witness ==
    /\ ds.skew # <<0, 0>>
    /\ pc = "exited"
    /\ tminmax = <<>> /\ store = {}

\* C20: within one run each tile file is written at most once, no tile
\* address is taken up twice over the base and overview loops, and each
\* tile that is generated is written by exactly one of out_drv.CreateCopy
\* and the 'antialias' branch of scale_query_to_tile.
C20_TileWrittenExactlyOnce ==
    /\ \A i, j \in DOMAIN trace :
          (i < j /\ trace[i][1] \in {"copied", "saved"} /\ trace[j][1] \in {"copied", "saved"})
              => trace[i][2] # trace[j][2]
    /\ \A i, j \in DOMAIN trace :
          (i < j /\ trace[i][1] \in {"begun", "skipped"} /\ trace[j][1] \in {"begun", "skipped"})
              => trace[i][2] # trace[j][2]
    /\ \A i \in DOMAIN trace : trace[i][1] # "unwritten"

\* C15: after open_input the zoom range is not inverted: tminz <= tmaxz.
C15_ZoomRangeNotInverted ==
    (pc # "open_input" /\ ~RotationOrSkew(ds)) => tminz[1] <= tmaxz[1]

\* No run of process(): the state of the specifications that call one
\* function on its own.
NoProcess ==
    /\ opt = [profile |-> "raster", resampling |-> "average", resume |-> FALSE,
              zoom |-> None]
    /\ ds = [x0 |-> 0, y0 |-> 0, px |-> 1, xsize |-> 1, ysize |-> 1, skew |-> <<0, 0>>]
    /\ pc = "idle"
    /\ Constructed(opt)
    /\ store = {}
    /\ dirs = {}
    /\ run = 1
    /\ first = None

---------------------------------------------------------------------------
(* open_input on its own, in the geodetic profile: rasters inside the      *)
(* world, across its edges, touching it from outside and beyond it; and    *)
(* the same rasters in the raster profile, where only their sizes count.   *)

OISize == 130       \* raster sizes in pixels: OISize and twice that
OIPixel == 2        \* pixel sizes 1..OIPixel units
Beyond == 40        \* how far beyond the world a raster may lie

OIOptions ==
    [profile : {"geodetic", "raster"}, resampling : {"average"}, resume : {FALSE},
     zoom : ZoomOptions]

OIDatasets ==
    [x0 : {-Deg180 - 2 * OISize * OIPixel - Beyond, -Deg180 - OISize, -Deg180, 0,
           Deg180 - 1, Deg180, Deg180 + Beyond},
     y0 : {-Deg90 - Beyond, -Deg90, -Deg90 + 1, 0, Deg90, Deg90 + OISize,
           Deg90 + 2 * OISize * OIPixel + Beyond},
     px : 1..OIPixel,
     xsize : {OISize, 2 * OISize},
     ysize : {OISize, 2 * OISize},
     skew : {<<0, 0>>}]

OIInit ==
    /\ Started(OIOptions, OIDatasets)
    /\ gq = GQIdle
    /\ zq = ZQIdle
    /\ fn = FnIdle

OINext == OpenInput

SpecOpenInput == OIInit /\ [][OINext]_vars

\* The world of the geodetic profile has 2^(zoom+1) x 2^zoom tiles.
InWorld(r, zoom) ==
    /\ 0 <= r[1] /\ r[1] <= 2^(zoom + 1) - 1
    /\ 0 <= r[3] /\ r[3] <= 2^(zoom + 1) - 1
    /\ 0 <= r[2] /\ r[2] <= 2^zoom - 1
    /\ 0 <= r[4] /\ r[4] <= 2^zoom - 1

\* The raster has no point inside the world on some axis.
OutsideWorld(d) ==
    LET b == OutputBounds(d)
    IN  b[1] >= Deg180 \/ b[3] <= -Deg180 \/ b[2] >= Deg90 \/ b[4] <= -Deg90

\* C8: for every zoom of the table and every dataset, the four indices of
\* the rectangle in tminmax lie inside the world: 0 .. 2^(zoom+1) - 1 for x
\* and 0 .. 2^zoom - 1 for y in the geodetic profile.
C8_RectangleInsideWorld ==
    (pc # "open_input" /\ opt.profile = "geodetic") =>
        \A zoom \in DOMAIN tminmax : InWorld(tminmax[zoom], zoom)

\* C9: after clipping every rectangle has tminx <= tmaxx and tminy <= tmaxy,
\* and open_input ends in an error, not in tile generation, when the dataset
\* lies entirely outside the world on some axis.
C9_RectangleNotInverted ==
    (pc # "open_input" /\ opt.profile = "geodetic") =>
        /\ \A zoom \in DOMAIN tminmax :
              tminmax[zoom][1] <= tminmax[zoom][3] /\ tminmax[zoom][2] <= tminmax[zoom][4]
        /\ OutsideWorld(ds) => pc = "raised"

\* C25: the rectangles of consecutive zooms are nested. For a dataset inside
\* the world, tminx(z) = tminx(z+1) div 2 and tmaxx(z) = tmaxx(z+1) div 2, and
\* the same for y, in the geodetic and in the raster profile; so every tile
\* of zoom z has a child in the rectangle of zoom z + 1 and every tile of
\* zoom z + 1 has its parent in the rectangle of zoom z.
C25_RectanglesNested ==
    (/\ pc # "open_input" /\ ~RotationOrSkew(ds)
     /\ opt.profile = "geodetic" =>
            LET b == OutputBounds(ds)
            IN  -Deg180 <= b[1] /\ b[3] <= Deg180 /\ -Deg90 <= b[2] /\ b[4] <= Deg90) =>
        \A z \in DOMAIN tminmax :
            (z + 1) \in DOMAIN tminmax =>
                /\ \A i \in 1..4 : tminmax[z][i] = tminmax[z + 1][i] \div 2
                /\ \A t \in RectTiles(tminmax, z) :
                       ChildrenOf(tminmax, z, t[2], t[3]) # <<>>
                /\ \A t \in RectTiles(tminmax, z + 1) :
                       <<z, t[2] \div 2, t[3] \div 2>> \in RectTiles(tminmax, z)

\* C25: open_input has built a table with zooms 0, 1 and 2 whose rectangle
\* of zoom 2 has more than one column and more than one row.
C25_Witness ==
    /\ pc = "generate_metadata"
    /\ 2 \in DOMAIN tminmax
    /\ tminmax[2][1] < tminmax[2][3] /\ tminmax[2][2] < tminmax[2][4]
    /\ tminmax[1][3] = tminmax[2][3] \div 2

---------------------------------------------------------------------------
(* open_input on its own, in the mercator profile: square rasters that     *)
(* cover the world exactly, fall short of its edges as the bounds          *)
(* +-20037508.34 fall short of originShift = 20037508.342789244, or        *)
(* reach beyond them, and rasters of a part of it.                         *)

MercatorShort == 1      \* the world's edges are missed by up to this many units

MercatorOptions ==
    [profile : {"mercator"}, resampling : {"average"}, resume : {FALSE},
     zoom : ZoomOptions]

\* The raster whose bounds are the world less g units on each side.
WorldShortBy(g) ==
    [x0 |-> -originShift + g, y0 |-> originShift - g, px |-> 1,
     xsize |-> 2 * originShift - 2 * g, ysize |-> 2 * originShift - 2 * g,
     skew |-> <<0, 0>>]

MercatorDatasets ==
    [x0 : { -originShift + g : g \in (-1)..MercatorShort } \cup {0},
     y0 : { originShift - g : g \in (-1)..MercatorShort } \cup {0},
     px : {1},
     xsize : { 2 * originShift - 2 * g : g \in (-1)..MercatorShort } \cup {originShift},
     ysize : { 2 * originShift - 2 * g : g \in (-1)..MercatorShort } \cup {originShift},
     skew : {<<0, 0>>}]

MCInit ==
    /\ Started(MercatorOptions, MercatorDatasets)
    /\ gq = GQIdle
    /\ zq = ZQIdle
    /\ fn = FnIdle

MCNext == OpenInput

SpecMercator == MCInit /\ [][MCNext]_vars

\* C13: for a mercator dataset whose output bounds are the full world
\* (-20037508.34 .. 20037508.34 on both axes, just short of originShift),
\* tminmax[0] = (0, 0, 0, 0), tminmax[1] = (0, 0, 1, 1) and in general
\* tminmax[z] = (0, 0, 2^z - 1, 2^z - 1).
C13_FullWorldMercatorTable ==
    (pc # "open_input" /\ opt.profile = "mercator"
       /\ ds \in { WorldShortBy(g) : g \in 1..MercatorShort }) =>
        \A zoom \in DOMAIN tminmax : tminmax[zoom] = <<0, 0, 2^zoom - 1, 2^zoom - 1>>

\* C13: open_input has filled the table for the full-world mercator raster.
C13_Witness ==
    /\ pc = "generate_metadata" /\ opt.profile = "mercator"
    /\ ds = WorldShortBy(1)
    /\ tminmax[0] = <<0, 0, 0, 0>>
    /\ tminmax[1] = <<0, 0, 1, 1>>

---------------------------------------------------------------------------
(* GDAL2Tiles.geo_query                                                    *)
(* A dataset is [x0, y0: origin (geotran[0], geotran[3]), px: pixel size   *)
(* geotran[1] = -geotran[5], xsize, ysize: RasterXSize, RasterYSize].      *)

\* Lines 971-980 (x) and 982-991 (y): the clipping of one axis.  r, rsize is
\* the raw read offset and size, wsize the write size, rastersize the raster
\* size on that axis.  raised: the division by a zero read size
\* (ZeroDivisionError).
ClipAxis(r, rsize, wsize, rastersize) ==
    LET before == r < 0
        shift  == Abs(r)
        raise1 == before /\ rsize = 0
        w1     == IF before /\ ~raise1 THEN IntMulDiv(wsize, shift, rsize) ELSE 0
        wsize1 == IF before THEN wsize - w1 ELSE wsize
        rsize1 == IF before /\ ~raise1
                    THEN rsize - IntMulDiv(rsize, shift, rsize) ELSE rsize
        r1     == IF before THEN 0 ELSE r
        after  == r1 + rsize1 > rastersize
        raise2 == ~raise1 /\ after /\ rsize1 = 0
        wsize2 == IF after /\ ~raise1 /\ ~raise2
                    THEN IntMulDiv(wsize1, rastersize - r1, rsize1) ELSE wsize1
        rsize2 == IF after THEN rastersize - r1 ELSE rsize1
    IN  [r |-> r1, rsize |-> rsize2, w |-> w1, wsize |-> wsize2,
         raised |-> raise1 \/ raise2]

geo_query(dset, ulx, uly, lrx, lry, querysize) ==
    LET rx     == IntDivPlusMilli(ulx - dset.x0, dset.px)
        ry     == IntDivPlusMilli(uly - dset.y0, -dset.px)
        rxsize == IntDivPlusHalf(lrx - ulx, dset.px)
        rysize == IntDivPlusHalf(lry - uly, -dset.px)
        wxsize == IF querysize = 0 THEN rxsize ELSE querysize
        wysize == IF querysize = 0 THEN rysize ELSE querysize
        cx     == ClipAxis(rx, rxsize, wxsize, dset.xsize)
        cy     == ClipAxis(ry, rysize, wysize, dset.ysize)
    IN  [rb |-> <<cx.r, cy.r, cx.rsize, cy.rsize>>,
         wb |-> <<cx.w, cy.w, cx.wsize, cy.wsize>>,
         raised |-> cx.raised \/ cy.raised]

---------------------------------------------------------------------------
(* geo_query on its own: every dataset and every square box of the ranges  *)
(* below, placed inside, across the edges of and outside the raster.       *)

MaxRaster == 3      \* raster sizes 1..MaxRaster pixels
PixelUnits == 2     \* coordinate units in one pixel
Reach == 5          \* how far a box may start before the raster origin
MaxSide == 4        \* box sides 1..MaxSide units

QuerySizes == {0, 3, 4}

GQDatasets ==
    [x0 : {0}, y0 : {0}, px : {PixelUnits}, xsize : 1..MaxRaster, ysize : 1..MaxRaster]

\* Boxes of 22 and 23 pixels over rasters of 15 and 30 pixels, at native
\* resolution and with a query of the box's size: read sizes at which
\* int(wsize * (float(shift) / rsize)) meets ProductRoundedBelow.
GQWideInputs ==
    [dset : [x0 : {0}, y0 : {0}, px : {1}, xsize : {15, 30}, ysize : {15, 30}],
     ulx : {-15, -13, -4, 0, 4},
     uly : {15, 13, 4, 0, -4},
     side : {22, 23},
     querysize : {0, 22, 23}]

\* A box is its upper-left corner and its side; y decreases downwards.
GQInputs ==
    [dset : GQDatasets,
     ulx : (-Reach)..(MaxRaster * PixelUnits + 2),
     uly : (-(MaxRaster * PixelUnits + 2))..Reach,
     side : 1..MaxSide,
     querysize : QuerySizes] \cup GQWideInputs

GQInit ==
    /\ gq \in [pc : {"call"}, arg : GQInputs, ret : {<<>>}]
    /\ zq = ZQIdle
    /\ NoProcess
    /\ fn = FnIdle

GQCall ==
    /\ gq.pc = "call"
    /\ gq' = [gq EXCEPT !.pc = "returned",
                        !.ret = geo_query(gq.arg.dset, gq.arg.ulx, gq.arg.uly,
                                          gq.arg.ulx + gq.arg.side,
                                          gq.arg.uly - gq.arg.side,
                                          gq.arg.querysize)]
    /\ UNCHANGED <<process, zq, fn>>

GQNext == GQCall

SpecGeoQuery == GQInit /\ [][GQNext]_vars

\* The read rectangle of a returned geo_query lies inside the raster.
ReadInsideRaster(ret, dset) ==
    /\ ret.rb[1] >= 0
    /\ ret.rb[2] >= 0
    /\ ret.rb[3] >= 0
    /\ ret.rb[4] >= 0
    /\ ret.rb[1] + ret.rb[3] <= dset.xsize
    /\ ret.rb[2] + ret.rb[4] <= dset.ysize

\* C1: for every box (inside, overlapping or outside the raster) and every
\* querysize >= 0 the read rectangle geo_query returns has rx >= 0, ry >= 0,
\* rxsize >= 0, rysize >= 0, rx + rxsize <= RasterXSize and
\* ry + rysize <= RasterYSize.
C1_ReadRectangleInsideRaster ==
    (gq.pc = "returned" /\ ~gq.ret.raised) => ReadInsideRaster(gq.ret, gq.arg.dset)

\* C22: when geo_query clips a box that overlaps the raster edge, the write
\* rectangle shrinks in proportion: on each axis the write size is
\* querysize * (clipped read size / unclipped read size) to within less than
\* one write pixel per clipping step, and the write offset is querysize *
\* (pixels before the raster origin / unclipped read size) truncated; for a
\* box inside the raster the read rectangle is as asked and the write
\* rectangle is (0, 0, querysize, querysize).
C22_WriteShrunkInProportion ==
    LET a  == gq.arg
        qs == a.querysize
        Axis(r, rsize, rastersize, cr, crsize, w, wsize) ==
            LET steps == (IF r < 0 THEN 1 ELSE 0) + (IF cr + crsize < r + rsize THEN 1 ELSE 0)
            IN  (rsize > 0 /\ r < rastersize /\ r + rsize > 0) =>
                    IF r >= 0 /\ r + rsize <= rastersize
                      THEN cr = r /\ crsize = rsize /\ w = 0 /\ wsize = qs
                      ELSE /\ w = (qs * Max(0, -r)) \div rsize
                           /\ Abs(wsize * rsize - qs * crsize) < steps * rsize
    IN  (gq.pc = "returned" /\ qs > 0 /\ ~gq.ret.raised) =>
            /\ Axis(IntDivPlusMilli(a.ulx - a.dset.x0, a.dset.px),
                    IntDivPlusHalf(a.side, a.dset.px), a.dset.xsize,
                    gq.ret.rb[1], gq.ret.rb[3], gq.ret.wb[1], gq.ret.wb[3])
            /\ Axis(IntDivPlusMilli(a.uly - a.dset.y0, -a.dset.px),
                    IntDivPlusHalf(a.side, a.dset.px), a.dset.ysize,
                    gq.ret.rb[2], gq.ret.rb[4], gq.ret.wb[2], gq.ret.wb[4])

\* C23: with querysize = 0 the write size geo_query returns equals the read
\* size on both axes, for boxes inside the raster and for boxes clipped at
\* any edge, and the write offset is the number of read pixels that lie
\* before the raster origin.
C23_NativeQueryWritesWhatItReads ==
    LET a == gq.arg
        rx == IntDivPlusMilli(a.ulx - a.dset.x0, a.dset.px)
        ry == IntDivPlusMilli(a.uly - a.dset.y0, -a.dset.px)
    IN  (gq.pc = "returned" /\ a.querysize = 0 /\ ~gq.ret.raised
           /\ gq.ret.rb[3] > 0 /\ gq.ret.rb[4] > 0) =>
            /\ gq.ret.wb[3] = gq.ret.rb[3]
            /\ gq.ret.wb[4] = gq.ret.rb[4]
            /\ gq.ret.wb[1] = Max(0, -rx)
            /\ gq.ret.wb[2] = Max(0, -ry)

\* C28: whenever the read rectangle of geo_query is not empty, the write
\* rectangle lies inside the query canvas: wx, wy, wxsize, wysize >= 0,
\* wx + wxsize <= querysize and wy + wysize <= querysize (the unclipped read
\* size in place of querysize when querysize = 0).
C28_WriteRectangleInsideCanvas ==
    LET a  == gq.arg
        cx == IF a.querysize = 0 THEN IntDivPlusHalf(a.side, a.dset.px) ELSE a.querysize
    IN  (gq.pc = "returned" /\ ~gq.ret.raised
           /\ gq.ret.rb[3] > 0 /\ gq.ret.rb[4] > 0) =>
            /\ \A i \in 1..4 : gq.ret.wb[i] >= 0
            /\ gq.ret.wb[1] + gq.ret.wb[3] <= cx
            /\ gq.ret.wb[2] + gq.ret.wb[4] <= cx

\* C28: a box clipped on the left and at the bottom has been queried, and
\* its write rectangle is a proper part of the canvas.
C28_Witness ==
    /\ gq.pc = "returned" /\ ~gq.ret.raised
    /\ gq.arg.querysize > 0
    /\ gq.ret.rb[3] > 0 /\ gq.ret.rb[4] > 0
    /\ gq.ret.wb[1] > 0
    /\ gq.ret.wb[4] > 0 /\ gq.ret.wb[4] < gq.arg.querysize

---------------------------------------------------------------------------
(* Resolution and ZoomForPixelSize on their own: the round trip through    *)
(* Resolution(zoom) for every zoom of range(MAXZOOMLEVEL), and pixel sizes *)
(* around, above and below every resolution.                               *)

MantissaSpread == 1     \* pixel sizes (45 - s .. 45 + s) / 2^e
ExtraExponent == 3      \* with e up to this far past the finest resolution

PixelSizes ==
    { Dy(m, e) : m \in (45 - MantissaSpread)..(45 + MantissaSpread),
                 e \in 0..(Log2(tileSize) - 2 + MAXZOOMLEVEL + ExtraExponent) }

ZQInit ==
    /\ zq \in [pc : {"zoom"}, zoom : 0..(MAXZOOMLEVEL - 1), pixelSize : {Dy(1, 0)},
                res : {None}, ret : {None}]
              \cup [pc : {"size"}, zoom : {0}, pixelSize : PixelSizes,
                    res : {None}, ret : {None}]
    /\ gq = GQIdle
    /\ NoProcess
    /\ fn = FnIdle

\* res = Resolution(zoom), next = Resolution(zoom + 1); the pixel size asked
\* for next is that resolution.
ZQResolution ==
    /\ zq.pc = "zoom"
    /\ zq' = [zq EXCEPT !.pc = "size",
                        !.res = <<Resolution(zq.zoom), Resolution(zq.zoom + 1)>>,
                        !.pixelSize = Resolution(zq.zoom)]
    /\ UNCHANGED <<process, gq, fn>>

ZQZoomForPixelSize ==
    /\ zq.pc = "size"
    /\ zq' = [zq EXCEPT !.pc = "returned", !.ret = <<ZoomForPixelSize(zq.pixelSize)>>]
    /\ UNCHANGED <<process, gq, fn>>

ZQNext == ZQResolution \/ ZQZoomForPixelSize

SpecZoom == ZQInit /\ [][ZQNext]_vars

\* C10: for every zoom z of range(MAXZOOMLEVEL), Resolution(z + 1) <
\* Resolution(z) and ZoomForPixelSize(Resolution(z)) returns z.
C10_ResolutionRoundTrip ==
    (zq.pc = "returned" /\ zq.res # None) =>
        /\ DyGreater(zq.res[1], zq.res[2])
        /\ zq.ret[1] = Some(zq.zoom)

\* The zoom levels searched for the first resolution finer than a pixel size:
\* every pixel size of PixelSizes has one among them.
ZoomCeiling == MAXZOOMLEVEL + ExtraExponent + 2

\* The smallest zoom whose resolution is finer than pixelSize.
FirstFinerZoom(pixelSize) ==
    CHOOSE i \in 0..ZoomCeiling :
        /\ DyGreater(pixelSize, Resolution(i))
        /\ \A j \in 0..(i - 1) : ~DyGreater(pixelSize, Resolution(j))

\* C11: ZoomForPixelSize(pixelSize) returns i - 1 for the smallest zoom i
\* with Resolution(i) < pixelSize, 0 when that i is 0, and never a negative
\* zoom, for any pixelSize > 0.
C11_ZoomBelowFirstFinerResolution ==
    zq.pc = "returned" =>
        /\ zq.ret[1] = Some(Max(FirstFinerZoom(zq.pixelSize) - 1, 0))
        /\ zq.ret[1][1] >= 0


\* C24: ZoomForPixelSize returns a whole zoom of 0..MAXZOOMLEVEL-1 for every
\* pixel size above zero, also for pixel sizes not above the resolution of
\* the finest zoom: it never leaves its loop without a zoom to return.
C24_ZoomForPixelSizeReturnsZoom ==
    zq.pc = "returned" =>
        /\ zq.ret[1] # None
        /\ zq.ret[1][1] \in 0..(MAXZOOMLEVEL - 1)
---------------------------------------------------------------------------
(* LatLonToTile and TileBounds on their own: points on, next to and        *)
(* between the lines of the finest tabulated grid, inside and beyond the   *)
(* world, given as open_input gives them (x first, then y).  A point is    *)
(* [u: whole units, t: 0, or 1 for a positive offset added to it that is   *)
(* smaller than the last bit of the double 180 + lat (90 + lon)]: u units  *)
(* plus 2^-47 degrees for 0 <= lat < 64, plus 2^-48 for 0 <= lon < 32.     *)

Near == 2       \* points up to this many units from a line of the grid

Cell == Deg180 \div 2^MaxZoom

\* The coordinates that are doubles with the offset, and lose it in the sum.
OffsetLostX(u) == 0 <= u /\ u * 180 < 64 * Deg180

OffsetLostY(u) == 0 <= u /\ u * 180 < 32 * Deg180

TLPointsX ==
    LET grid == { c * Cell + d : c \in (-(2^MaxZoom + 1))..(2^MaxZoom + 1),
                                 d \in (-Near)..Near }
    IN  [u : grid, t : {0}] \cup [u : { v \in grid : OffsetLostX(v) }, t : {1}]

TLPointsY ==
    LET grid == { c * Cell + d : c \in (-(2^(MaxZoom - 1) + 1))..(2^(MaxZoom - 1) + 1),
                                 d \in (-Near)..Near }
    IN  [u : grid, t : {0}] \cup [u : { v \in grid : OffsetLostY(v) }, t : {1}]

\* The double 180 + lat (90 + lon) of LatLonToPixels: that of the whole units,
\* the offset being rounded away.
SumRounded(p) == p.u

TLInit ==
    /\ fn \in [pc : {"tile"}, x : TLPointsX, y : TLPointsY, zoom : 0..MaxZoom,
                tile : {None}, bounds : {None}]
    /\ gq = GQIdle
    /\ zq = ZQIdle
    /\ NoProcess

TLLatLonToTile ==
    /\ fn.pc = "tile"
    /\ fn' = [fn EXCEPT !.pc = "bounds",
                        !.tile = LatLonToTile(SumRounded(fn.x), SumRounded(fn.y), fn.zoom)]
    /\ UNCHANGED <<process, gq, zq>>

TLTileBounds ==
    /\ fn.pc = "bounds"
    /\ fn' = [fn EXCEPT !.pc = "returned",
                        !.bounds = TileBounds(fn.tile[1], fn.tile[2], fn.zoom)]
    /\ UNCHANGED <<process, gq, zq>>

TLNext == TLLatLonToTile \/ TLTileBounds

SpecTile == TLInit /\ [][TLNext]_vars

\* The point lies on no line of the grid of its zoom: strictly inside a tile.
TLInterior ==
    LET side == Deg180 \div 2^fn.zoom
    IN  /\ fn.x.t = 1 \/ (fn.x.u + Deg180) % side # 0
        /\ fn.y.t = 1 \/ (fn.y.u + Deg90) % side # 0

\* low < p < high for a point p and two whole numbers of units.
TLBetween(low, p, high) ==
    /\ low < p.u \/ (low = p.u /\ p.t = 1)
    /\ p.u < high

TLContained ==
    /\ TLBetween(fn.bounds[1], fn.x, fn.bounds[3])
    /\ TLBetween(fn.bounds[2], fn.y, fn.bounds[4])

C29_ParentIsUnionOfChildren ==
    fn.pc = "returned" =>
        LET ptx == fn.tile[1]
            pty == fn.tile[2]
            pz == fn.zoom
            low == TileBounds(2 * ptx, 2 * pty, pz + 1)
            high == TileBounds(2 * ptx + 1, 2 * pty + 1, pz + 1)
        IN  /\ fn.bounds = <<low[1], low[2], high[3], high[4]>>
            /\ fn.bounds[3] = TileBounds(ptx + 1, pty, pz)[1]
            /\ fn.bounds[4] = TileBounds(ptx, pty + 1, pz)[2]
            /\ fn.bounds[1] < fn.bounds[3] /\ fn.bounds[2] < fn.bounds[4]
            /\ (ptx = 0 /\ pty = 0) => (fn.bounds[1] = -Deg180 /\ fn.bounds[2] = -Deg90)
            /\ (ptx = 2^(pz + 1) - 1 /\ pty = 2^pz - 1) =>
                   (fn.bounds[3] = Deg180 /\ fn.bounds[4] = Deg90)

\* C29: the bounds of the last tile of the world at the finest zoom, a tile
\* with a west and a south neighbour, have been computed.
C29_Witness ==
    /\ fn.pc = "returned"
    /\ fn.zoom = MaxZoom
    /\ fn.tile = <<2^(MaxZoom + 1) - 1, 2^MaxZoom - 1>>
    /\ fn.bounds[3] = Deg180 /\ fn.bounds[4] = Deg90

---------------------------------------------------------------------------
(* generate_overview_tiles: where the tile of the child <<x, y>> is        *)
(* written in the 2 * tilesize canvas of its parent <<tx, ty>>.            *)

\* Lines 923-932 without the case ty == 0 and y == 1.
ChildPositionNoEdgeRow(ptx, pty, x, y) ==
    LET tileposy == IF pty # 0 /\ (y % (2 * pty)) # 0 THEN 0 ELSE tilesize
        tileposx == IF ptx # 0 THEN (x % (2 * ptx)) * tilesize
                    ELSE IF ptx = 0 /\ x = 1 THEN tilesize
                    ELSE 0
    IN  <<tileposx, tileposy>>

\* Lines 923-932: <<tileposx, tileposy>>.
ChildPosition(ptx, pty, x, y) ==
    LET tileposy == IF (pty = 0 /\ y = 1) \/ (pty # 0 /\ (y % (2 * pty)) # 0)
                      THEN 0 ELSE tilesize
        tileposx == IF ptx # 0 THEN (x % (2 * ptx)) * tilesize
                    ELSE IF ptx = 0 /\ x = 1 THEN tilesize
                    ELSE 0
    IN  <<tileposx, tileposy>>

MaxTile == 5      \* parent tiles have columns and rows 0..MaxTile

\* for y in range(2 * ty, 2 * ty + 2): for x in range(2 * tx, 2 * tx + 2)
ChildAddresses(ptx, pty) == {2 * ptx, 2 * ptx + 1} \X {2 * pty, 2 * pty + 1}

CPInit ==
    /\ fn \in { f \in [pc : {"child"}, tx : 0..MaxTile, ty : 0..MaxTile,
                        x : 0..(2 * MaxTile + 1), y : 0..(2 * MaxTile + 1),
                        pos : {None}] :
                    <<f.x, f.y>> \in ChildAddresses(f.tx, f.ty) }
    /\ gq = GQIdle
    /\ zq = ZQIdle
    /\ NoProcess

CPPlace ==
    /\ fn.pc = "child"
    /\ fn' = [fn EXCEPT !.pc = "placed",
                        !.pos = Some(ChildPosition(fn.tx, fn.ty, fn.x, fn.y))]
    /\ UNCHANGED <<process, gq, zq>>

CPNext == CPPlace

SpecChild == CPInit /\ [][CPNext]_vars

\* C16: the child <<x, y>> of the parent <<tx, ty>> is placed at column
\* (x - 2 * tx) * tilesize and row (1 - (y - 2 * ty)) * tilesize of the canvas,
\* also when tx = 0 or ty = 0, so the four children of a parent are placed
\* in four different quadrants.
C16_ChildPlacedByParity ==
    fn.pc = "placed" =>
        /\ fn.pos = Some(<<(fn.x - 2 * fn.tx) * tilesize,
                           (1 - (fn.y - 2 * fn.ty)) * tilesize>>)
        /\ Cardinality({ ChildPosition(fn.tx, fn.ty, c[1], c[2]) :
                            c \in ChildAddresses(fn.tx, fn.ty) }) = 4

\* C16: the upper right child of a parent in row 0 has been placed.
C16_Witness ==
    /\ fn.pc = "placed"
    /\ fn.ty = 0 /\ fn.tx > 0
    /\ fn.y = 1 /\ fn.x = 2 * fn.tx + 1
    /\ fn.pos = Some(<<tilesize, 0>>)

---------------------------------------------------------------------------
(* The directory step of both tile loops, lines 761-763 and 900-902, run   *)
(* by two workers on different tiles:                                      *)
(*     if not os.path.exists(os.path.dirname(tilefilename)):               *)
(*         os.makedirs(os.path.dirname(tilefilename))                      *)
(* os.makedirs creates the missing level directory first, passing over one *)
(* that appeared meanwhile, and then os.mkdir of the column directory      *)
(* raises FileExistsError when that directory is there.                    *)

Workers == {1, 2}

MDInit ==
    /\ fn \in { f \in [pc : {"dirs"},
                        at : [Workers -> {"exists"}],
                        tile : [Workers -> (0..MaxZoom) \X (0..1) \X (0..1)],
                        made : SUBSET ({<<z>> : z \in 0..MaxZoom} \cup
                                       ((0..MaxZoom) \X (0..1)))] :
                    /\ f.tile[1] # f.tile[2]
                    /\ \A d \in f.made : Len(d) = 2 => <<d[1]>> \in f.made
                    /\ \A d \in f.made : \E w \in Workers :
                          d \in {<<f.tile[w][1]>>, <<f.tile[w][1], f.tile[w][2]>>} }
    /\ gq = GQIdle
    /\ zq = ZQIdle
    /\ NoProcess

\* os.path.exists(os.path.dirname(tilefilename))
MDExists(w) ==
    /\ fn.pc = "dirs" /\ fn.at[w] = "exists"
    /\ fn' = [fn EXCEPT !.at[w] = IF <<fn.tile[w][1], fn.tile[w][2]>> \in fn.made
                                    THEN "done" ELSE "makedirs"]
    /\ UNCHANGED <<process, gq, zq>>

\* os.makedirs, the level directory: made when missing.
MDMakeLevel(w) ==
    /\ fn.pc = "dirs" /\ fn.at[w] = "makedirs"
    /\ fn' = [fn EXCEPT !.at[w] = "mkdir", !.made = @ \cup {<<fn.tile[w][1]>>}]
    /\ UNCHANGED <<process, gq, zq>>

\* os.makedirs, the column directory: os.mkdir.
MDMakeColumn(w) ==
    /\ fn.pc = "dirs" /\ fn.at[w] = "mkdir"
    /\ IF <<fn.tile[w][1], fn.tile[w][2]>> \in fn.made
         THEN fn' = [fn EXCEPT !.at[w] = "raised"]
         ELSE fn' = [fn EXCEPT !.at[w] = "done",
                               !.made = @ \cup {<<fn.tile[w][1], fn.tile[w][2]>>}]
    /\ UNCHANGED <<process, gq, zq>>

MDNext == \E w \in Workers : MDExists(w) \/ MDMakeLevel(w) \/ MDMakeColumn(w)

SpecMakeDirs == MDInit /\ [][MDNext]_vars

\* C21: when two workers on different tiles of one column directory run the
\* directory step at the same time, neither ends in an error: a directory
\* that is already there when it is to be created counts as success.
C21_ConcurrentMakedirsSucceeds ==
    fn.pc = "dirs" => \A w \in Workers : fn.at[w] # "raised"

---------------------------------------------------------------------------
(* generate_base_tiles, lines 776-814: the read window in the raster and   *)
(* the write window in the query canvas of one base tile, on their own:    *)
(* every tile of the rectangle of tmaxz, for rasters of one or two pixels, *)
(* of a few tiles and of the geodetic profile around whole tiles.          *)

\* The windows of base tile <<z, x, y>>, and the local querysize; r is what
\* open_input left in the object.
BaseWindow(o, d, r, z, x, y) ==
    IF o.profile = "raster"
      THEN LET rect   == r.tminmax[z]
               ts     == r.tsize[z]
               xrest  == IF x = rect[3] THEN d.xsize % ts ELSE 0
               yrest  == IF y = rect[4] THEN d.ysize % ts ELSE 0
               rxsize == IF xrest = 0 THEN ts ELSE xrest
               rysize == IF yrest = 0 THEN ts ELSE yrest
               wxsize == (rxsize * tilesize) \div ts
               wysize == (rysize * tilesize) \div ts
           IN  [rb |-> <<x * ts, d.ysize - (y * ts) - rysize, rxsize, rysize>>,
                wb |-> <<0, IF wysize # tilesize THEN tilesize - wysize ELSE 0,
                         wxsize, wysize>>,
                querysize |-> BaseQuerysize(o, r.nativezoom, z)]
      ELSE LET b == TileBounds(x, y, z)
               q == geo_query(d, b[1], b[4], b[3], b[2], InitQuerysize(o.resampling))
           IN  [rb |-> q.rb, wb |-> q.wb, querysize |-> InitQuerysize(o.resampling)]

BWInit ==
    /\ fn \in UNION {
           LET r == open_input(o, d, None, IF o.zoom = None THEN None ELSE Some(o.zoom[2]))
           IN  IF r.tmaxz[1] \in DOMAIN r.tminmax
                 THEN { [pc |-> "tile", opt |-> o, ds |-> d, tile |-> t, ret |-> None] :
                          t \in RectTiles(r.tminmax, r.tmaxz[1]) }
                 ELSE {} :
           o \in [profile : {"geodetic", "raster"}, resampling : {"average", "near"},
                  resume : {FALSE}, zoom : {None} \cup ({0} \X (0..MaxZoom))],
           d \in [x0 : {-300}, y0 : {Deg90}, px : {1, 2}, xsize : {1, 2, 5, 300, 600},
                  ysize : {1, 2, 300, 600}, skew : {<<0, 0>>}] }
    /\ gq = GQIdle
    /\ zq = ZQIdle
    /\ NoProcess

BWWindow ==
    /\ fn.pc = "tile"
    /\ LET r == open_input(fn.opt, fn.ds, None,
                           IF fn.opt.zoom = None THEN None ELSE Some(fn.opt.zoom[2]))
       IN  fn' = [fn EXCEPT !.pc = "window",
                            !.ret = BaseWindow(fn.opt, fn.ds, r, fn.tile[1], fn.tile[2],
                                               fn.tile[3])]
    /\ UNCHANGED <<process, gq, zq>>

BWNext == BWWindow

SpecBaseWindow == BWInit /\ [][BWNext]_vars

\* C26: in the raster profile the read window of every tile of the
\* rectangle of tmaxz lies inside the raster, for every tmaxz >= 0, also
\* above the native zoom where the tile size in raster pixels is rounded up:
\* rx, ry >= 0, rxsize, rysize > 0, rx + rxsize <= RasterXSize and
\* ry + rysize <= RasterYSize.
C26_RasterReadWindowInsideRaster ==
    (fn.pc = "window" /\ fn.opt.profile = "raster") =>
        /\ fn.ret.rb[1] >= 0 /\ fn.ret.rb[2] >= 0
        /\ fn.ret.rb[3] > 0 /\ fn.ret.rb[4] > 0
        /\ fn.ret.rb[1] + fn.ret.rb[3] <= fn.ds.xsize
        /\ fn.ret.rb[2] + fn.ret.rb[4] <= fn.ds.ysize


\* The base tile of the harness lies fully inside the raster: in the raster
\* profile its full tsize x tsize read square fits, in the geodetic profile its
\* bounds lie within the extent of the dataset.
TileInsideRaster ==
    IF fn.opt.profile = "raster"
      THEN LET r == open_input(fn.opt, fn.ds, None,
                                IF fn.opt.zoom = None THEN None ELSE Some(fn.opt.zoom[2]))
               ts == r.tsize[fn.tile[1]]
           IN  /\ fn.tile[1] <= NativeZoom(fn.ds) + Log2(tilesize)
               /\ (fn.tile[2] + 1) * ts <= fn.ds.xsize
               /\ (fn.tile[3] + 1) * ts <= fn.ds.ysize
      ELSE LET b == TileBounds(fn.tile[2], fn.tile[3], fn.tile[1])
           IN  /\ fn.ds.x0 <= b[1]
               /\ b[3] <= fn.ds.x0 + fn.ds.px * fn.ds.xsize
               /\ b[4] <= fn.ds.y0
               /\ fn.ds.y0 - fn.ds.px * fn.ds.ysize <= b[2]

\* C27: for a base tile fully inside the raster the write window is the whole
\* canvas, (0, 0, querysize, querysize), where querysize is the size of the
\* canvas handed to scale_query_to_tile (the tile size when the read is written
\* to the tile directly).
C27_InsideTileFillsCanvas ==
    (fn.pc = "window" /\ TileInsideRaster) =>
        fn.ret.wb = <<0, 0, fn.ret.querysize, fn.ret.querysize>>

====
